---- MODULE Spec2Model ----
(***************************************************************************)
(* The 1-D Burgers' equation notebook (steps/04_burgers_equation.ipynb):   *)
(* the setup cell (nx, nt, dx, nu, dt, x, un, u) and the time-marching     *)
(* cell (snapshot, interior sweep, periodic boundary update).              *)
(*                                                                         *)
(* Floating-point values are modelled as exact rationals <<num, den>> with *)
(* den > 0 in lowest terms, extended by the three non-finite values of the *)
(* float format, <<1, 0>> (+inf), <<-1, 0>> (-inf) and <<0, 0>> (NaN).     *)
(* Rounding and signed zeros are not modelled.  Arrays are functions on    *)
(* 0 .. nx-1, as in the source.                                            *)
(***************************************************************************)
EXTENDS Integers, Sequences, FiniteSets, TLC

\* ------------------------------------------------------------------ bounds

\* The largest point count nx the setup cell is given.
MaxNx == 4

\* The largest step count nt the setup cell is given; also the cap on the
\* steps taken on one initial field when the time-marching cell is executed
\* again.
MaxNt == 2

\* Entries of the initial field are drawn from 0 .. MaxVal.
MaxVal == 1

\* ------------------------------------------------------- float arithmetic

Abs(a) == IF a < 0 THEN -a ELSE a

Sgn(a) == IF a < 0 THEN -1 ELSE IF a > 0 THEN 1 ELSE 0

RECURSIVE GCD(_, _)
GCD(a, b) == IF b = 0 THEN a ELSE GCD(b, a % b)

\* p / q in lowest terms with a positive denominator (q # 0).
Norm(p, q) ==
    LET g == GCD(Abs(p), Abs(q))
        s == IF q < 0 THEN -1 ELSE 1
    IN  <<(s * p) \div g, (s * q) \div g>>

NaN == <<0, 0>>

Zero == <<0, 1>>

R(k) == <<k, 1>>

IsFinite(a) == a[2] # 0

IsNaN(a) == a = NaN

\* float addition
RAdd(a, b) ==
    IF IsFinite(a) /\ IsFinite(b)
    THEN LET g == GCD(a[2], b[2])
         IN  Norm(a[1] * (b[2] \div g) + b[1] * (a[2] \div g), (a[2] \div g) * b[2])
    ELSE IF IsNaN(a) \/ IsNaN(b) THEN NaN
    ELSE IF ~IsFinite(a) /\ ~IsFinite(b) THEN (IF a = b THEN a ELSE NaN)
    ELSE IF IsFinite(a) THEN b ELSE a

RNeg(a) == <<-a[1], a[2]>>

\* float subtraction
RSub(a, b) == RAdd(a, RNeg(b))

\* float multiplication
RMul(a, b) ==
    IF IsFinite(a) /\ IsFinite(b)
    THEN LET g1 == GCD(Abs(a[1]), b[2])
             g2 == GCD(Abs(b[1]), a[2])
         IN  Norm((a[1] \div g1) * (b[1] \div g2), (a[2] \div g2) * (b[2] \div g1))
    ELSE IF IsNaN(a) \/ IsNaN(b) THEN NaN
    ELSE <<Sgn(a[1]) * Sgn(b[1]), 0>>

\* numpy float division (no exception: x/0 is +-inf, 0/0 is NaN)
RDiv(a, b) ==
    IF IsNaN(a) \/ IsNaN(b) THEN NaN
    ELSE IF ~IsFinite(b) THEN (IF IsFinite(a) THEN Zero ELSE NaN)
    ELSE IF b[1] = 0 THEN <<Sgn(a[1]), 0>>
    ELSE IF ~IsFinite(a) THEN <<Sgn(a[1]) * Sgn(b[1]), 0>>
    ELSE RMul(a, <<Sgn(b[1]) * b[2], Abs(b[1])>>)

\* a <= b (false when either is NaN)
RLeq(a, b) ==
    IF IsFinite(a) /\ IsFinite(b)
    THEN LET g == GCD(a[2], b[2])
         IN  a[1] * (b[2] \div g) <= b[1] * (a[2] \div g)
    ELSE ~IsNaN(a) /\ ~IsNaN(b) /\ a[1] <= b[1]

\* a > 0 (false of NaN)
RPos(a) == a[1] > 0

\* ------------------------------------------------------------ setup cell

\* 2 * np.pi, the domain length.  pi is irrational; the model takes the
\* rational stand-in 6 for the product.
TwoPi == R(6)

\* The values the literal nu takes (0.07 in the notebook).
NuSet == {R(-1), Zero, R(1), <<1, 2>>}

NxSet == -1 .. MaxNx

NtSet == 0 .. MaxNt

\* What np.empty leaves in the buffer: uninitialised memory, any float.
Garbage == {R(7), NaN}

\* A slip in the spacing: the domain divided by the point count.
SpacingByPoints(pnx) == RDiv(TwoPi, R(pnx))

\* dx = 2 * np.pi / (nx - 1), a Python float division (nx # 1)
Spacing(pnx) == RDiv(TwoPi, R(pnx - 1))

\* dt = dx * nu
TimeStep(pdx, pnu) == RMul(pdx, pnu)

\* np.linspace(0, 2 * np.pi, nx): nx evenly spaced points, both ends included
Linspace(pnx) ==
    [k \in 0 .. (pnx - 1) |->
        IF pnx = 1 THEN Zero ELSE RMul(R(k), RDiv(TwoPi, R(pnx - 1)))]

\* np.empty(nx)
Empty(pnx, g) == [k \in 0 .. (pnx - 1) |-> g]

\* The fields np.asarray([ufunc(t, x0, nu) for x0 in x]) may hold: one value
\* per grid point (the analytical profile itself is not modelled).  Besides
\* the finite fields, the fields with a NaN at one grid point.
InitialFields(pnx) ==
    [0 .. (pnx - 1) -> {R(v) : v \in 0 .. MaxVal}]
        \cup {[k \in 0 .. (pnx - 1) |-> IF k = j THEN NaN ELSE Zero] : j \in 0 .. (pnx - 1)}

\* -------------------------------------------------------- time-marching cell

\* Python index k of an array of length len (negative indices count from
\* the end)
PyIdx(k, len) == IF k < 0 THEN k + len ELSE k

\* A slip in the loop bound: range(nt + 1).
HasNextInclusive(pn, pnt) == pn <= pnt

\* for n in range(nt): whether the iterator yields another step
HasNext(pn, pnt) == pn < pnt

\* A slip in the sweep's bound: range(1, nx-2), the sweep ending one index
\* early.
InRangeShort(pi, pnx) == pi < pnx - 2

\* for i in range(1, nx-1): whether the iterator yields another index
InRange(pi, pnx) == pi < pnx - 1

\* A slip in the snapshot: the copy left out, un keeps what it held.
SnapshotStale(pu, pun) == pun

\* un = u.copy()
SnapshotOf(pu, pun) == pu

\* A slip in the diffusion term: its sign reversed.
BurgersAntiDiffusion(c, l, r, pdt, pdx, pnu) ==
    RSub(RSub(c, RMul(RDiv(RMul(c, pdt), pdx), RSub(c, l))),
         RMul(RDiv(RMul(pnu, pdt), RMul(pdx, pdx)),
              RAdd(RSub(r, RMul(R(2), c)), l)))

\* A slip in the convection term: the forward difference (r - c).
BurgersForward(c, l, r, pdt, pdx, pnu) ==
    RAdd(RSub(c, RMul(RDiv(RMul(c, pdt), pdx), RSub(r, c))),
         RMul(RDiv(RMul(pnu, pdt), RMul(pdx, pdx)),
              RAdd(RSub(r, RMul(R(2), c)), l)))

\* A slip in the snapshot: un = u, a second name for the same array, so
\* that every write to u shows in un.
SnapshotAliased(pun, pnew) == pnew

\* What un holds after a write that makes u hold pnew: u.copy() is an array
\* of its own, so un keeps its contents.
SnapshotKept(pun, pnew) == pun

\* c - c * dt / dx * (c - l) + nu * dt / dx**2 * (r - 2 * c + l), with
\* Python's precedence and left-to-right evaluation
Burgers(c, l, r, pdt, pdx, pnu) ==
    RAdd(RSub(c, RMul(RDiv(RMul(c, pdt), pdx), RSub(c, l))),
         RMul(RDiv(RMul(pnu, pdt), RMul(pdx, pdx)),
              RAdd(RSub(r, RMul(R(2), c)), l)))

\* A slip in the sweep's target: u[i-1] = ..., which writes index 0 at
\* i = 1.
InteriorTargetShifted(pi) == pi - 1

\* the index the sweep writes at position i: u[i] = ...
InteriorTarget(pi) == pi

\* A slip in the sweep: the left neighbour read from u, the array being
\* written, instead of the snapshot.
InteriorValueInPlace(pu, pun, pi, pdt, pdx, pnu) ==
    Burgers(pun[pi], pu[pi - 1], pun[pi + 1], pdt, pdx, pnu)

\* the right-hand side of u[i] = ...
InteriorValue(pu, pun, pi, pdt, pdx, pnu) ==
    Burgers(pun[pi], pun[pi - 1], pun[pi + 1], pdt, pdx, pnu)

\* A slip in the wraparound: the last entry un[-1], the duplicate of
\* index 0, taken as the left neighbour of index 0.
PeriodicValueWrongWrap(pu, pun, pnx, pdt, pdx, pnu) ==
    Burgers(pun[0], pun[PyIdx(-1, pnx)], pun[1], pdt, pdx, pnu)

\* A slip in the boundary update: index 0 held at its old value, as for a
\* fixed-value boundary.
PeriodicValueHeld(pu, pun, pnx, pdt, pdx, pnu) == pun[0]

\* the right-hand side of u[0] = ...
PeriodicValue(pu, pun, pnx, pdt, pdx, pnu) ==
    Burgers(pun[0], pun[PyIdx(-2, pnx)], pun[1], pdt, pdx, pnu)

\* A slip in the boundary update: u[-1] = un[0].
LastValueStale(pu, pun) == pun[0]

\* the right-hand side of u[-1] = u[0]
LastValue(pu, pun) == pu[0]

\* ------------------------------------------------------------------ state

VARIABLES
    nx, nt, dx, nu, dt, x, un, u,   \* the notebook's globals
    n,          \* iterations of the time loop completed in this execution
    i,          \* the interior sweep's index
    pc,         \* the statement to execute next
    err,        \* the exception that ended a cell, or "none"
    u0,         \* history: the initial field the setup cell produced
    garb,       \* history: what np.empty left in un, per execution of setup
    total,      \* history: time steps completed since the setup cell ran
    uprev,      \* history: the field when the current time step began
    hist        \* history: the field after 1, 2, ... steps since setup

vars == <<nx, nt, dx, nu, dt, x, un, u, n, i, pc, err, u0, garb, total, uprev, hist>>

params == <<nx, nt, dx, nu, dt, x>>

NoArray == [k \in {} |-> Zero]

LoopPcs == {"head", "copy", "sweep", "last"}

\* A fresh kernel: no cell has run.  The globals are unbound; the model
\* gives them placeholder values that nothing reads before setup.
Init ==
    /\ nx = 0 /\ nt = 0 /\ dx = Zero /\ nu = Zero /\ dt = Zero
    /\ x = NoArray /\ un = NoArray /\ u = NoArray
    /\ n = 0 /\ i = 0
    /\ pc = "cell6" /\ err = "none"
    /\ u0 = NoArray /\ garb = <<>> /\ total = 0 /\ uprev = NoArray /\ hist = <<>>

\* The setup cell with nx = 1: dx = 2 * np.pi / 0 raises ZeroDivisionError;
\* nx and nt are bound, nothing else.
SetupZeroDivision(pnx, pnt) ==
    /\ pc = "cell6"
    /\ pnx = 1
    /\ nx' = pnx /\ nt' = pnt
    /\ pc' = "error" /\ err' = "ZeroDivisionError"
    /\ UNCHANGED <<dx, nu, dt, x, un, u, n, i, u0, garb, total, uprev, hist>>

\* The setup cell with nx < 0: np.linspace raises ValueError; nx, nt, dx,
\* nu and dt are bound.
SetupValueError(pnx, pnt, pnu) ==
    /\ pc = "cell6"
    /\ pnx < 0
    /\ nx' = pnx /\ nt' = pnt
    /\ dx' = Spacing(pnx) /\ nu' = pnu /\ dt' = TimeStep(Spacing(pnx), pnu)
    /\ pc' = "error" /\ err' = "ValueError"
    /\ UNCHANGED <<x, un, u, n, i, u0, garb, total, uprev, hist>>

\* The setup cell, every statement succeeding.  f is the field that
\* np.asarray([ufunc(t, x0, nu) for x0 in x]) returns.
Setup(pnx, pnt, pnu, g) ==
    /\ pc = "cell6"
    /\ pnx >= 0 /\ pnx # 1
    /\ \E f \in InitialFields(pnx) :
          /\ u' = f
          /\ u0' = f /\ uprev' = f
    /\ nx' = pnx /\ nt' = pnt
    /\ dx' = Spacing(pnx) /\ nu' = pnu /\ dt' = TimeStep(Spacing(pnx), pnu)
    /\ x' = Linspace(pnx)
    /\ un' = Empty(pnx, g)
    /\ n' = 0 /\ i' = 0
    /\ pc' = "head" /\ err' = "none"
    /\ garb' = <<g>> /\ total' = 0 /\ hist' = <<>>

\* The setup cell executed again after a finished run, with the same
\* literals and the same initial field; np.empty returns fresh memory.
ReSetup(g) ==
    /\ pc = "done"
    /\ Len(garb) = 1
    /\ dx' = Spacing(nx) /\ dt' = TimeStep(Spacing(nx), nu)
    /\ x' = Linspace(nx)
    /\ un' = Empty(nx, g)
    /\ u' = u0
    /\ n' = 0 /\ i' = 0
    /\ pc' = "head"
    /\ garb' = Append(garb, g) /\ total' = 0 /\ uprev' = u0
    /\ UNCHANGED <<nx, nt, nu, err, u0, hist>>

\* The time-marching cell executed again after a finished run, without the
\* setup cell in between: range(nt) starts over, u is what the run left.
ReMarch ==
    /\ pc = "done"
    /\ total + nt <= MaxNt
    /\ n' = 0
    /\ pc' = "head"
    /\ UNCHANGED <<params, un, u, i, err, u0, garb, total, uprev, hist>>

\* for n in range(nt): another iteration
LoopEnter ==
    /\ pc = "head"
    /\ HasNext(n, nt)
    /\ pc' = "copy"
    /\ uprev' = u
    /\ UNCHANGED <<params, un, u, n, i, err, u0, garb, total, hist>>

\* for n in range(nt): exhausted
LoopExit ==
    /\ pc = "head"
    /\ ~HasNext(n, nt)
    /\ pc' = "done"
    /\ UNCHANGED <<params, un, u, n, i, err, u0, garb, total, uprev, hist>>

\* un = u.copy()
Snapshot ==
    /\ pc = "copy"
    /\ un' = SnapshotOf(u, un)
    /\ i' = 1
    /\ pc' = "sweep"
    /\ UNCHANGED <<params, u, n, err, u0, garb, total, uprev, hist>>

\* u[i] = ... for one i of range(1, nx-1)
Interior ==
    /\ pc = "sweep"
    /\ InRange(i, nx)
    /\ u' = [u EXCEPT ![InteriorTarget(i)] = InteriorValue(u, un, i, dt, dx, nu)]
    /\ un' = SnapshotKept(un, u')
    /\ i' = i + 1
    /\ UNCHANGED <<params, n, pc, err, u0, garb, total, uprev, hist>>

\* u[0] = ... after the sweep
BoundaryFirst ==
    /\ pc = "sweep"
    /\ ~InRange(i, nx)
    /\ nx > 0
    /\ u' = [u EXCEPT ![0] = PeriodicValue(u, un, nx, dt, dx, nu)]
    /\ un' = SnapshotKept(un, u')
    /\ pc' = "last"
    /\ UNCHANGED <<params, n, i, err, u0, garb, total, uprev, hist>>

\* u[0] = ... on an empty array (nx = 0): un[0] raises IndexError
BoundaryIndexError ==
    /\ pc = "sweep"
    /\ ~InRange(i, nx)
    /\ nx = 0
    /\ pc' = "error" /\ err' = "IndexError"
    /\ UNCHANGED <<params, un, u, n, i, u0, garb, total, uprev, hist>>

\* u[-1] = u[0], which ends the iteration
BoundaryLast ==
    /\ pc = "last"
    /\ u' = [u EXCEPT ![PyIdx(-1, nx)] = LastValue(u, un)]
    /\ un' = SnapshotKept(un, u')
    /\ n' = n + 1
    /\ total' = total + 1
    /\ hist' = IF total + 1 > Len(hist) THEN Append(hist, u') ELSE hist
    /\ pc' = "head"
    /\ UNCHANGED <<params, i, err, u0, garb, uprev>>

Next ==
    \/ \E pnx \in NxSet, pnt \in NtSet : SetupZeroDivision(pnx, pnt)
    \/ \E pnx \in NxSet, pnt \in NtSet, pnu \in NuSet : SetupValueError(pnx, pnt, pnu)
    \/ \E pnx \in NxSet, pnt \in NtSet, pnu \in NuSet, g \in Garbage :
          Setup(pnx, pnt, pnu, g)
    \/ \E g \in Garbage : ReSetup(g)
    \/ ReMarch
    \/ LoopEnter
    \/ LoopExit
    \/ Snapshot
    \/ Interior
    \/ BoundaryFirst
    \/ BoundaryIndexError
    \/ BoundaryLast

Spec == Init /\ [][Next]_vars

\* ------------------------------------------------------------- properties

\* A time step has just been completed in this execution of the cell.
StepCompleted == pc \in {"head", "done"} /\ n >= 1

\* The left neighbour of index k on the periodic grid, as the cell reads it:
\* k - 1 in the interior, nx - 2 for index 0.
LeftOf(k) == IF k = 0 THEN nx - 2 ELSE k - 1

\* The value the update formula gives index k from the field f alone.
FromLevel(f, k) == Burgers(f[k], f[LeftOf(k)], f[k + 1], dt, dx, nu)

\* The discretised update of the notebook's text,
\*   c - c (dt/dx) (c - l) + (nu dt / dx^2) (r - 2 c + l),
\* with the two coefficients formed first.
Discretised(c, l, r) ==
    LET sigma == RDiv(dt, dx)
        diff  == RDiv(RMul(nu, dt), RMul(dx, dx))
        conv  == RMul(RMul(c, sigma), RSub(c, l))
        lapl  == RAdd(RSub(r, RAdd(c, c)), l)
    IN  RAdd(RSub(c, conv), RMul(diff, lapl))

\* C1: after every completed time step the first and the last entry of the
\* field hold the same value, u[0] = u[nx-1].
C1_PeriodicEnds == StepCompleted => u[0] = u[nx - 1]

\* C1 witness: a step has been completed on a field whose ends were moved
\* by it (the first entry differs from the one the step started with).
C1_Witness == StepCompleted /\ nx >= 3 /\ u[0] # uprev[0] /\ u[0] = u[nx - 1]

\* C2: within a time step every entry written so far (the interior indices
\* below the sweep's position, and index 0 once the boundary update ran) is
\* the update formula applied to the field as it was when the step began;
\* no value written during the step enters it, so the order of the visits
\* does not matter.
C2_ReadsPreviousLevel ==
    /\ pc = "sweep" => \A k \in 1 .. (i - 1) : u[k] = FromLevel(uprev, k)
    /\ (pc = "last" \/ StepCompleted) => \A k \in 0 .. (nx - 2) : u[k] = FromLevel(uprev, k)

\* C2 witness: the sweep has reached index 2 after changing index 1, the
\* left neighbour index 2 reads; and the whole step then completes.
C2_Witness ==
    /\ pc = "last" /\ nx >= 4
    /\ u[1] # uprev[1]
    /\ u[2] # Burgers(uprev[2], u[1], uprev[3], dt, dx, nu)

\* C3 (as claimed): an execution of the time loop never ends in an error
\* state, and when it ends the loop has run exactly nt iterations.
C3_AlwaysNtIterations ==
    /\ pc = "done" => n = nt
    /\ ~(pc = "error" /\ err = "IndexError")

\* C4: a run of zero steps (nt = 0) leaves every entry of the field at its
\* initial value.
C4_ZeroSteps == (pc = "done" /\ nt = 0) => u = u0

\* C4 witness: a zero-step run has finished on a field a step would change.
C4_Witness ==
    /\ pc = "done" /\ nt = 0 /\ nx >= 3 /\ u = u0
    /\ \E k \in 0 .. (nx - 2) : FromLevel(u0, k) # u0[k]

\* C5: a second run with the same parameters and the same initial field
\* (the setup cell executed again; only what np.empty leaves in un may
\* differ) has, after every step, the field the first run had after that
\* step.
C5_Determinism ==
    (Len(garb) = 2 /\ pc \in {"head", "done"}) =>
        IF total = 0 THEN u = u0
        ELSE total <= Len(hist) => u = hist[total]

\* C5 witness: the second run has finished at least one step that the first
\* run also took, started on different contents of un, and moved the field.
C5_Witness ==
    /\ Len(garb) = 2 /\ garb[1] # garb[2]
    /\ pc = "done" /\ total >= 1 /\ total <= Len(hist)
    /\ u # u0

\* C6 (as claimed): whenever an execution of the time-marching cell has
\* finished, the field is the one nt steps from the initial field, whatever
\* ran before.
C6_NoStateBetweenRuns ==
    pc = "done" => u = (IF nt = 0 THEN u0 ELSE hist[nt])

\* C7 (as claimed): a point count below 2 never gets past the setup cell:
\* the cell ends in an error before any step.
C7_SmallGridRejected ==
    (pc # "cell6" /\ nx < 2) =>
        (pc = "error" /\ err \in {"ConfigurationError", "ZeroDivisionError", "ValueError"})

\* C8 (as claimed): the time loop completes no step with dx <= 0 or
\* dt <= 0.
C8_PositiveSteps == StepCompleted => (RPos(dx) /\ RPos(dt))

\* C9: once the setup cell has run, dx times (nx - 1) is the domain length
\* and consecutive coordinates lie dx apart; and no statement of the time
\* loop changes nx, nt, dx, dt, nu or x.
C9_GridImmutable ==
    /\ [](pc \in LoopPcs \cup {"done"} =>
            /\ RMul(dx, R(nx - 1)) = TwoPi
            /\ \A k \in 0 .. (nx - 2) : RSub(x[k + 1], x[k]) = dx)
    /\ [][(pc \in LoopPcs) => (params' = params)]_vars

\* C9 witness: a run of at least two steps on a grid with interior points
\* has finished.
C9_Witness == pc = "done" /\ n >= 2 /\ nx >= 3 /\ RMul(dx, R(nx - 1)) = TwoPi

\* C11: every write of the interior sweep, at an index i with
\* 1 <= i <= nx-2, stores un[i] - un[i] (dt/dx) (un[i] - un[i-1])
\* + (nu dt/dx^2) (un[i+1] - 2 un[i] + un[i-1]), un being the snapshot:
\* upwind convection scaled by un[i], central diffusion scaled by nu.
C11_InteriorFormula ==
    [][(pc = "sweep" /\ pc' = "sweep") =>
          /\ 1 <= i /\ i <= nx - 2
          /\ u'[i] = Discretised(un[i], un[i - 1], un[i + 1])]_vars

\* C11 witness: the sweep has just written index 1 where the snapshot has
\* a left difference and a second difference, both terms being active.
C11_Witness ==
    /\ pc = "sweep" /\ i = 2 /\ nx >= 4
    /\ IsFinite(un[1]) /\ un[1] # Zero /\ nu # Zero
    /\ un[1] # un[0]
    /\ RAdd(RSub(un[2], RAdd(un[1], un[1])), un[0]) # Zero
    /\ u[1] = Discretised(un[1], un[0], un[2])
    /\ u[1] # un[1]

\* C12: the boundary update stores at index 0 the interior formula with
\* left neighbour un[nx-2], centre un[0] and right neighbour un[1], all of
\* the snapshot, and then stores at the last index the value just computed
\* for index 0, leaving index 0 as it is.
C12_PeriodicUpdate ==
    [][/\ (pc = "sweep" /\ pc' = "last") =>
             u'[0] = Discretised(un[0], un[nx - 2], un[1])
       /\ (pc = "last") =>
             (u'[nx - 1] = u[0] /\ u'[0] = u[0])]_vars

\* C12 witness: a step has completed in which the last-but-one and the
\* last entry of the snapshot differ, index 0 has moved, and the last
\* entry holds the new value of index 0, not the snapshot's.
C12_Witness ==
    /\ StepCompleted /\ nx >= 3
    /\ un[nx - 2] # un[nx - 1]
    /\ u[0] = Discretised(un[0], un[nx - 2], un[1])
    /\ u[nx - 1] = u[0] /\ u[nx - 1] # un[0]

\* C13: in every iteration the snapshot comes first (taken while u still is
\* the field the step began with), the interior sweep follows and visits
\* 1, 2, ..., nx-2 in turn, and the boundary update starts only when the
\* sweep has visited them all; the boundary update is followed by the end
\* of the iteration, so that it runs once per step, and the next snapshot
\* is taken only after the loop head has been passed again.
C13_StepOrder ==
    [][/\ (pc' = "copy") => pc = "head"
       /\ (pc = "copy") => (pc' = "sweep" /\ un' = uprev /\ u = uprev /\ i' = 1)
       /\ (pc' = "sweep") => (pc = "copy" \/ (pc = "sweep" /\ i' = i + 1))
       /\ (pc' = "last") => (pc = "sweep" /\ i = nx - 1)
       /\ (pc = "last") => (pc' = "head" /\ n' = n + 1)
       /\ (un' # un) => (pc = "copy" \/ pc \in {"cell6", "done"})]_vars

\* C13 witness: the boundary update of a second time step is about to end,
\* the sweep of that step having visited both interior indices of a
\* four-point grid.
C13_Witness == pc = "last" /\ n >= 1 /\ nx >= 4 /\ i = nx - 1 /\ un = uprev

\* C14: from the snapshot to the end of the iteration un equals, entry for
\* entry, the field as it was when the iteration began (the field the
\* previous iteration ended with, the initial field in the first), and no
\* write to u of the sweep or of the boundary update changes un.
C14_SnapshotReadOnly ==
    (pc \in {"sweep", "last"} \/ StepCompleted) =>
        /\ un = uprev
        /\ (total = 0 /\ ~StepCompleted) => un = u0
        /\ (total >= 1 /\ ~StepCompleted) => un = hist[total]

\* C14 witness: in a second time step the sweep and the write of index 0
\* have changed u, and un still is the field the step began with.
C14_Witness ==
    /\ pc = "last" /\ total >= 1 /\ nx >= 3
    /\ u[0] # un[0] /\ u[1] # un[1]
    /\ un = hist[total]

\* C15: a write of the interior sweep has its index i in 1 .. nx-2, so
\* that the stencil indices i-1 and i+1 lie in 0 .. nx-1, changes no entry
\* but u[i] and so leaves u[0] and u[nx-1] as they are; an entry at index 0
\* or nx-1 changes only in the boundary update that follows the sweep.
C15_InteriorOnly ==
    [][/\ (pc = "sweep" /\ pc' = "sweep") =>
             /\ 0 <= i - 1 /\ i + 1 <= nx - 1
             /\ \A k \in 0 .. (nx - 1) : k # i => u'[k] = u[k]
             /\ u'[0] = u[0] /\ u'[nx - 1] = u[nx - 1]
       /\ (pc \in LoopPcs /\ nx >= 1 /\ (u'[0] # u[0] \/ u'[nx - 1] # u[nx - 1])) =>
             (pc' = "last" \/ pc = "last")]_vars

\* C15 witness: a sweep has written every interior index of a four-point
\* grid, moving both, with the two boundary entries still those of the
\* snapshot; the boundary update is next.
C15_Witness ==
    /\ pc = "sweep" /\ nx >= 4 /\ i = nx - 1
    /\ u[1] # un[1] /\ u[2] # un[2]
    /\ u[0] = un[0] /\ u[nx - 1] = un[nx - 1]

\* The reference scheme of the boundary condition u(0) = u(2 pi): one step
\* on a ring of N points, every point k updated by the formula with the
\* neighbours (k-1) mod N and (k+1) mod N.
RingStep(r, N) ==
    [k \in 0 .. (N - 1) |->
        Discretised(r[k], r[(k - 1) % N], r[(k + 1) % N])]

\* The ring field after k steps from the first nx-1 entries of the initial
\* field.
RECURSIVE RingAfter(_)
RingAfter(k) ==
    IF k = 0 THEN [j \in 0 .. (nx - 2) |-> u0[j]]
    ELSE RingStep(RingAfter(k - 1), nx - 1)

\* A ring field laid out on the grid: ring point 0 repeated at the end.
Duplicated(r) == [k \in 0 .. (nx - 1) |-> IF k = nx - 1 THEN r[0] ELSE r[k]]

\* C16: on an initial field with u[0] = u[nx-1] and nx >= 3, after every
\* step the field is that of the ring scheme on nx-1 points after as many
\* steps, its last entry being the duplicate of ring point 0.
C16_RingRefinement ==
    (pc \in {"head", "done"} /\ total >= 1 /\ nx >= 3 /\ u0[0] = u0[nx - 1]) =>
        u = Duplicated(RingAfter(total))

\* C16 witness: two steps have been taken from a field with equal ends whose
\* last-but-one point differs from them, so that the ring's wraparound
\* neighbour matters, and the field has moved in each.
C16_Witness ==
    /\ pc = "head" /\ total >= 2 /\ nx >= 4
    /\ u0[0] = u0[nx - 1] /\ u0[nx - 2] # u0[0]
    /\ hist[1] # u0 /\ u # hist[1]
    /\ u = Duplicated(RingAfter(total))

\* The largest and the smallest entry of a field without NaN.
FieldMax(f) == CHOOSE v \in {f[k] : k \in DOMAIN f} : \A k \in DOMAIN f : RLeq(f[k], v)

FieldMin(f) == CHOOSE v \in {f[k] : k \in DOMAIN f} : \A k \in DOMAIN f : RLeq(v, f[k])

\* The hypotheses of the discrete maximum principle: dx > 0, dt > 0,
\* nu >= 0, an initial field with every entry >= 0, and
\* max(u0) dt/dx + 2 nu dt/dx^2 <= 1.
MaxPrincipleHyp ==
    /\ nx >= 2
    /\ RPos(dx) /\ RPos(dt) /\ RLeq(Zero, nu)
    /\ \A k \in 0 .. (nx - 1) : RLeq(Zero, u0[k])
    /\ RLeq(RAdd(RMul(FieldMax(u0), RDiv(dt, dx)),
                 RMul(R(2), RDiv(RMul(nu, dt), RMul(dx, dx)))),
            R(1))

\* C17: under these hypotheses, after every step every entry of the field
\* lies between the smallest and the largest entry of the initial field,
\* and a step neither raises the largest entry nor lowers the smallest.
C17_MaximumPrinciple ==
    (MaxPrincipleHyp /\ pc \in {"head", "done"} /\ total >= 1) =>
        /\ \A k \in 0 .. (nx - 1) :
              RLeq(FieldMin(u0), u[k]) /\ RLeq(u[k], FieldMax(u0))
        /\ StepCompleted =>
              /\ RLeq(FieldMax(u), FieldMax(uprev))
              /\ RLeq(FieldMin(uprev), FieldMin(u))

\* C17 witness: under the hypotheses two steps have been taken from a field
\* that is not constant, each of which moved the field.
C17_Witness ==
    /\ MaxPrincipleHyp /\ pc = "head" /\ total >= 2 /\ n >= 1 /\ nx >= 3
    /\ FieldMin(u0) # FieldMax(u0)
    /\ hist[1] # u0 /\ u # hist[1]
    /\ RLeq(FieldMax(u), FieldMax(uprev)) /\ FieldMax(u) # FieldMax(u0)

\* What np.empty left in un at the latest execution of the setup cell.
Uninitialised == Empty(nx, garb[Len(garb)])

\* C18: the contents np.empty left in un are never read.  Where the
\* stencil statements read un in the first step after setup (the sweep and
\* the write of index 0), un holds the copy of the initial field; a run of
\* zero steps reaches no statement that reads un and leaves the buffer as
\* np.empty returned it; and the field after the first step is the formula
\* on the initial field, whatever the buffer held.
C18_BufferNeverRead ==
    /\ (pc = "sweep" /\ total = 0) => un = u0
    /\ (nt = 0 /\ pc # "cell6") =>
          (pc \in {"head", "done", "error"} /\ (pc # "error" => un = Uninitialised))
    /\ (pc \in {"head", "done"} /\ total = 1 /\ nx >= 2) =>
          \A k \in 0 .. (nx - 2) :
              u[k] = Discretised(u0[k], u0[IF k = 0 THEN nx - 2 ELSE k - 1], u0[k + 1])

\* C18 witness: the first sweep after setup is reading un, which holds the
\* initial field and not what np.empty left (here NaN in every entry).
C18_Witness ==
    /\ pc = "sweep" /\ total = 0 /\ nx >= 3 /\ i = 2
    /\ garb[Len(garb)] = NaN
    /\ un = u0 /\ un # Uninitialised
    /\ IsFinite(u[1]) /\ u[1] # u0[1]

====
